---- MODULE Spec2Model ----
(***************************************************************************)
(* A model of load-env (src/load-env.go): the resolution of a chain of     *)
(* .env files into the joint environment map.                              *)
(*                                                                         *)
(* Strings are sequences of one-character strings, so that the regular     *)
(* expressions of the program, its placeholder for an escaped dollar and   *)
(* its trimming and splitting are modelled character by character.  Maps   *)
(* (map[string]string) are functions from strings to strings.              *)
(***************************************************************************)
EXTENDS Naturals, Sequences, FiniteSets

VARIABLES
    suite,                \* which family of inputs this run draws from
    pc,                   \* position of main: "locate", "chain", "scan",
                          \* "done", and "exit0", "exit1", "exec" once the
                          \* process is over
    located,              \* main: the number of files found, len(envFilePaths)
    fatal,                \* the error main reported before os.Exit(1)
    osEnvMap,             \* main: the process environment
    jointResolvedEnvMap,  \* main: the accumulated result of the chain
    inheritedEnvMap,      \* main: what the next file inherits
    initialEnvMap,        \* parseEnvFile: the current file's resolved map
    fileNo,               \* number of files opened so far
    nLines,               \* number of lines read so far, over the whole chain
    returned,             \* what the last call of parseEnvFile returned
    mode,                 \* the mode main acts in, once it has come to it
    stdout,               \* the lines main printed on its standard output
    envp,                 \* the environment handed to syscall.Exec
    fileMaps,             \* history: the map each completed file returned
    last                  \* history: what the last scanned line did

vars == <<suite, pc, located, fatal, osEnvMap, jointResolvedEnvMap,
          inheritedEnvMap, initialEnvMap, fileNo, nLines, returned, mode,
          stdout, envp, fileMaps, last>>

----------------------------------------------------------------------------
(* Bounds of the model. *)

\* at most this many files in a chain
MaxFiles == 2

\* at most this many lines are read over the whole chain
MaxLines == 3

----------------------------------------------------------------------------
(* Characters and strings. *)

Letters ==
    {"a","b","c","d","e","f","g","h","i","j","k","l","m",
     "n","o","p","q","r","s","t","u","v","w","x","y","z",
     "A","B","C","D","E","F","G","H","I","J","K","L","M",
     "N","O","P","Q","R","S","T","U","V","W","X","Y","Z"}

Digits == {"0","1","2","3","4","5","6","7","8","9"}

\* [a-zA-Z_]
IsNameStart(c) == c \in Letters \cup {"_"}

\* [a-zA-Z0-9_]
IsNameChar(c) == c \in Letters \cup Digits \cup {"_"}

\* \s of the regular expressions, and the white space of strings.TrimSpace
IsSpace(c) == c \in {" ", "\t", "\n", "\r"}

\* the string "__LOAD_ENV_LITERAL_DOLLAR__"
literalDollarPlaceholder ==
    <<"_","_","L","O","A","D","_","E","N","V","_",
      "L","I","T","E","R","A","L","_","D","O","L","L","A","R","_","_">>

\* the shell every command is handed to
defaultShell == <<"b","a","s","h">>

Drop(s, n) == SubSeq(s, n + 1, Len(s))

Take(s, n) == SubSeq(s, 1, n)

\* strings.HasPrefix(Drop(s, i-1), p): p occurs in s at position i
OccursAt(s, i, p) ==
    /\ i >= 1
    /\ i + Len(p) - 1 <= Len(s)
    /\ SubSeq(s, i, i + Len(p) - 1) = p

HasPrefix(s, p) == OccursAt(s, 1, p)

HasSuffix(s, p) == Len(p) <= Len(s) /\ OccursAt(s, Len(s) - Len(p) + 1, p)

\* strings.Contains
Contains(s, p) == \E i \in 1..(Len(s) + 1) : OccursAt(s, i, p)

\* the least index >= i of s that holds c, 0 when there is none
RECURSIVE IndexFrom(_, _, _)
IndexFrom(s, i, c) ==
    IF i > Len(s) THEN 0
    ELSE IF s[i] = c THEN i
    ELSE IndexFrom(s, i + 1, c)

RECURSIVE TrimLeft(_)
TrimLeft(s) ==
    IF s # <<>> /\ IsSpace(s[1]) THEN TrimLeft(Tail(s)) ELSE s

RECURSIVE TrimRight(_)
TrimRight(s) ==
    IF s # <<>> /\ IsSpace(s[Len(s)]) THEN TrimRight(Take(s, Len(s) - 1)) ELSE s

\* strings.TrimSpace
TrimSpace(s) == TrimRight(TrimLeft(s))

\* strings.TrimSuffix(s, "\n")
TrimSuffixNewline(s) ==
    IF s # <<>> /\ s[Len(s)] = "\n" THEN Take(s, Len(s) - 1) ELSE s

\* strings.ReplaceAll(s, old, new), old not empty: the occurrences of old are
\* found left to right, without overlap, and the replacement is not rescanned
RECURSIVE ReplaceAll(_, _, _)
ReplaceAll(s, old, new) ==
    IF s = <<>> THEN <<>>
    ELSE IF HasPrefix(s, old) THEN new \o ReplaceAll(Drop(s, Len(old)), old, new)
    ELSE <<s[1]>> \o ReplaceAll(Tail(s), old, new)

----------------------------------------------------------------------------
(* Maps. *)

EmptyMap == [k \in {} |-> <<>>]

\* on a key of both, the earlier argument wins
mergeMapsFirstWins(a, b) ==
    [k \in (DOMAIN a) \cup (DOMAIN b) |-> IF k \in DOMAIN a THEN a[k] ELSE b[k]]

\* mergeMaps(a, b): a new map; on a key of both, the later argument wins
mergeMaps(a, b) ==
    [k \in (DOMAIN a) \cup (DOMAIN b) |-> IF k \in DOMAIN b THEN b[k] ELSE a[k]]

\* a key that the map holds keeps its value
MapSetKeepsFirst(m, key, value) ==
    [k \in (DOMAIN m) \cup {key} |-> IF k \in DOMAIN m THEN m[k] ELSE value]

\* m[key] = value of Go, as a new function
MapSet(m, key, value) ==
    [k \in (DOMAIN m) \cup {key} |-> IF k = key THEN value ELSE m[k]]

----------------------------------------------------------------------------
(* The regular expressions.  A match anchored at index i of text t is a    *)
(* record [ok, cap, end]: whether the expression matches there, its        *)
(* captured group and the index of the last character matched.  Go's       *)
(* regexp finds the leftmost match and, among the matches that start       *)
(* there, the one a backtracking search finds first.                       *)

NoMatch == [ok |-> FALSE, cap |-> <<>>, end |-> 0]

\* the index of the last character of the longest run of [a-zA-Z0-9_] that
\* starts at i; i - 1 when there is none
RECURSIVE NameEnd(_, _)
NameEnd(t, i) ==
    IF i <= Len(t) /\ IsNameChar(t[i]) THEN NameEnd(t, i + 1) ELSE i - 1

\* variableExpansionRegex,
\*   \$(?:([a-zA-Z_][a-zA-Z0-9_]*)|{([a-zA-Z_][a-zA-Z0-9_]*)})
\* cap is the name, from group 1 or from group 2
variableExpansionRegex(t, i) ==
    IF i + 1 > Len(t) \/ t[i] # "$" THEN NoMatch
    ELSE IF IsNameStart(t[i + 1])
    THEN [ok |-> TRUE, cap |-> SubSeq(t, i + 1, NameEnd(t, i + 1)),
          end |-> NameEnd(t, i + 1)]
    ELSE IF /\ t[i + 1] = "{"
            /\ i + 2 <= Len(t)
            /\ IsNameStart(t[i + 2])
            /\ NameEnd(t, i + 2) + 1 <= Len(t)
            /\ t[NameEnd(t, i + 2) + 1] = "}"
    THEN [ok |-> TRUE, cap |-> SubSeq(t, i + 2, NameEnd(t, i + 2)),
          end |-> NameEnd(t, i + 2) + 1]
    ELSE NoMatch

\* \$ open ([^close]+) close: the command is the text up to the first close,
\* and it is not empty
DelimitedMatch(t, i, open, close) ==
    IF i + 1 > Len(t) \/ t[i] # "$" \/ t[i + 1] # open THEN NoMatch
    ELSE LET j == IndexFrom(t, i + 2, close)
         IN  IF j > i + 2
             THEN [ok |-> TRUE, cap |-> SubSeq(t, i + 2, j - 1), end |-> j]
             ELSE NoMatch

\* alternateCommandRegex, \$\[([^\]]+)\]
alternateCommandRegex(t, i) == DelimitedMatch(t, i, "[", "]")

\* genericCommandRegex, \$\(([^)]+)\)
genericCommandRegex(t, i) == DelimitedMatch(t, i, "(", ")")

\* \s*([^)]+) on the whole of r, r not empty and without ")": \s* takes the
\* leading white space, but leaves one character for the group
RECURSIVE GopassPath(_)
GopassPath(r) ==
    IF Len(r) > 1 /\ IsSpace(r[1]) THEN GopassPath(Tail(r)) ELSE r

\* gopassRegex,
\*   \$\(gopass(?: show)?(?:(?:\s+[-]{1,2}[a-zA-Z0-9_]+(?:[^)\s]+)?)*)\s*([^)]+)\)
\* cap is the path.  A flag of the starred group starts with "-"; no input
\* of this model holds that character, so the group matches zero times.
\* " show" is taken when what follows it up to ")" is not empty, and is
\* otherwise left to the path.
gopassRegex(t, i) ==
    LET head == <<"$","(","g","o","p","a","s","s">>
        show == <<" ","s","h","o","w">>
    IN  IF ~OccursAt(t, i, head) THEN NoMatch
        ELSE LET from == i + Len(head)
                 j    == IndexFrom(t, from, ")")
                 r    == SubSeq(t, from, j - 1)
             IN  IF j = 0 \/ r = <<>> THEN NoMatch
                 ELSE IF HasPrefix(r, show) /\ Len(r) > Len(show)
                 THEN [ok |-> TRUE, cap |-> GopassPath(Drop(r, Len(show))),
                       end |-> j]
                 ELSE [ok |-> TRUE, cap |-> GopassPath(r), end |-> j]

\* the three command passes, in the order parseEnvFile runs them
Passes == <<"gopass", "alternate", "generic">>

MatchAt(pass, t, i) ==
    IF pass = "gopass" THEN gopassRegex(t, i)
    ELSE IF pass = "alternate" THEN alternateCommandRegex(t, i)
    ELSE genericCommandRegex(t, i)

----------------------------------------------------------------------------
(* Variable expansion. *)

\* a reference to an unbound name is left in the text as $NAME
ExpandMatchKeepsUnbound(varName, combinedEnvForLookup) ==
    IF varName \in DOMAIN combinedEnvForLookup
    THEN combinedEnvForLookup[varName]
    ELSE <<"$">> \o varName

\* the function expandVarsInString hands to ReplaceAllStringFunc
ExpandMatch(varName, combinedEnvForLookup) ==
    IF varName \in DOMAIN combinedEnvForLookup
    THEN combinedEnvForLookup[varName]
    ELSE <<>>

\* ReplaceAllStringFunc of variableExpansionRegex over text, from index i on:
\* matches are found left to right and a replacement is not rescanned
RECURSIVE ExpandFrom(_, _, _)
ExpandFrom(text, i, combinedEnvForLookup) ==
    IF i > Len(text) THEN <<>>
    ELSE LET m == variableExpansionRegex(text, i)
         IN  IF m.ok
             THEN ExpandMatch(m.cap, combinedEnvForLookup)
                      \o ExpandFrom(text, m.end + 1, combinedEnvForLookup)
             ELSE <<text[i]>> \o ExpandFrom(text, i + 1, combinedEnvForLookup)

\* the pass is made again on its own result
expandVarsInStringTwice(text, combinedEnvForLookup) ==
    ExpandFrom(ExpandFrom(text, 1, combinedEnvForLookup), 1,
               combinedEnvForLookup)

expandVarsInString(text, combinedEnvForLookup) ==
    ExpandFrom(text, 1, combinedEnvForLookup)

----------------------------------------------------------------------------
(* The command runner and the command passes.                              *)
(*                                                                         *)
(* What a sub-process does is not decided by the program: an outcome o of  *)
(* the runner is a record [ok, out], ok = FALSE when cmd.Output() returns  *)
(* an error (nonzero exit, or the process could not be started) and out    *)
(* the captured standard output otherwise.  A pass over a value yields the *)
(* set of its possible results, one per choice of outcomes, each a record  *)
(* [out, calls, warns]: the new value, the runner invocations made, in     *)
(* order, and the warnings written to os.Stderr, in order.                 *)

\* the sub-process environment is merged with its arguments swapped: an
\* inherited value hides the one the file stored
executeCommandSubstitutionInheritedWins(commandString, inherited, current, o) ==
    [call   |-> [name |-> defaultShell,
                 arg  |-> <<"-c", commandString>>,
                 env  |-> mergeMaps(current, inherited),
                 ok   |-> o.ok,
                 out  |-> o.out],
     err    |-> ~o.ok,
     output |-> IF o.ok THEN TrimSuffixNewline(o.out) ELSE <<>>]

\* all the white space at the end of the output is removed
executeCommandSubstitutionTrimsAll(commandString, inherited, current, o) ==
    [call   |-> [name |-> defaultShell,
                 arg  |-> <<"-c", commandString>>,
                 env  |-> mergeMaps(inherited, current),
                 ok   |-> o.ok,
                 out  |-> o.out],
     err    |-> ~o.ok,
     output |-> IF o.ok THEN TrimRight(o.out) ELSE <<>>]

\* executeCommandSubstitution: the invocation made (with the outcome o it
\* had, for the record) and what the function returns
executeCommandSubstitution(commandString, inherited, current, o) ==
    [call   |-> [name |-> defaultShell,
                 arg  |-> <<"-c", commandString>>,
                 env  |-> mergeMaps(inherited, current),
                 ok   |-> o.ok,
                 out  |-> o.out],
     err    |-> ~o.ok,
     output |-> IF o.ok THEN TrimSuffixNewline(o.out) ELSE <<>>]

\* "gopass show --password "
gopassShowPassword ==
    <<"g","o","p","a","s","s"," ","s","h","o","w"," ",
      "-","-","p","a","s","s","w","o","r","d"," ">>

\* the command a pass runs for a match whose group is cap
commandToExecute(pass, cap) ==
    IF pass = "gopass" THEN gopassShowPassword \o cap ELSE cap

\* an empty output is used without a warning
SubstituteMatchSilentOnEmpty(pass, cap, ctx, o) ==
    LET r      == executeCommandSubstitution(commandToExecute(pass, cap),
                                             ctx.inherited, ctx.current, o)
        output == expandVarsInString(r.output, ctx.lookup)
    IN  [text  |-> IF r.err THEN <<>> ELSE output,
         call  |-> [pass |-> pass, name |-> r.call.name, arg |-> r.call.arg,
                    env |-> r.call.env, ok |-> r.call.ok, out |-> r.call.out],
         warns |-> IF r.err THEN <<[what |-> "failed", pass |-> pass]>>
                   ELSE <<>>]

\* the function a pass hands to ReplaceAllStringFunc, for one match: the text
\* that replaces the match, the invocation and the warnings
SubstituteMatch(pass, cap, ctx, o) ==
    LET r      == executeCommandSubstitution(commandToExecute(pass, cap),
                                             ctx.inherited, ctx.current, o)
        output == expandVarsInString(r.output, ctx.lookup)
    IN  [text  |-> IF r.err THEN <<>> ELSE output,
         call  |-> [pass |-> pass, name |-> r.call.name, arg |-> r.call.arg,
                    env |-> r.call.env, ok |-> r.call.ok, out |-> r.call.out],
         warns |-> IF r.err THEN <<[what |-> "failed", pass |-> pass]>>
                   ELSE IF output = <<>>
                   THEN <<[what |-> "returned empty", pass |-> pass]>>
                   ELSE <<>>]

NoCalls == [out |-> <<>>, calls |-> <<>>, warns |-> <<>>]

\* a command that failed is run a second time
RECURSIVE SubstituteFromRetries(_, _, _, _)
SubstituteFromRetries(pass, value, i, ctx) ==
    IF i > Len(value) THEN {NoCalls}
    ELSE LET m == MatchAt(pass, value, i)
         IN  IF m.ok
             THEN { [out   |-> s.text \o rest.out,
                     calls |-> (IF s.call.ok THEN <<s.call>>
                                ELSE <<s.call, s.call>>) \o rest.calls,
                     warns |-> s.warns \o rest.warns] :
                       s \in { SubstituteMatch(pass, m.cap, ctx, o) :
                                  o \in ctx.outcomes },
                       rest \in SubstituteFromRetries(pass, value,
                                                      m.end + 1, ctx) }
             ELSE { [rest EXCEPT !.out = <<value[i]>> \o rest.out] :
                       rest \in SubstituteFromRetries(pass, value, i + 1, ctx) }

\* ReplaceAllStringFunc of a pass over value, from index i on
RECURSIVE SubstituteFrom(_, _, _, _)
SubstituteFrom(pass, value, i, ctx) ==
    IF i > Len(value) THEN {NoCalls}
    ELSE LET m == MatchAt(pass, value, i)
         IN  IF m.ok
             THEN { [out   |-> s.text \o rest.out,
                     calls |-> <<s.call>> \o rest.calls,
                     warns |-> s.warns \o rest.warns] :
                       s \in { SubstituteMatch(pass, m.cap, ctx, o) :
                                  o \in ctx.outcomes },
                       rest \in SubstituteFrom(pass, value, m.end + 1, ctx) }
             ELSE { [rest EXCEPT !.out = <<value[i]>> \o rest.out] :
                       rest \in SubstituteFrom(pass, value, i + 1, ctx) }

\* applyCommandSubstitution(value, r, ...), and the gopass pass of
\* parseEnvFile, which differs from it in the command it builds
applyCommandSubstitution(value, pass, ctx) ==
    SubstituteFrom(pass, value, 1, ctx)

\* one more pass on each result of the passes before it
ThenPass(results, pass, ctx) ==
    UNION { { [out   |-> n.out,
               calls |-> r.calls \o n.calls,
               warns |-> r.warns \o n.warns] :
                 n \in applyCommandSubstitution(r.out, pass, ctx) } :
            r \in results }

\* the command passes run on the value as written, and the variable
\* expansion pass comes last
ProcessValueCommandsFirst(value, inherited, current, outcomes) ==
    LET combinedEnvForLookup == mergeMaps(inherited, current)
        ctx == [inherited |-> inherited, current |-> current,
                lookup |-> combinedEnvForLookup, outcomes |-> outcomes]
        p1 == applyCommandSubstitution(value, Passes[1], ctx)
        p2 == ThenPass(p1, Passes[2], ctx)
        p3 == ThenPass(p2, Passes[3], ctx)
    IN  { [r EXCEPT !.out = expandVarsInString(r.out, combinedEnvForLookup)] :
            r \in p3 }

\* the lookup map is built with its arguments swapped: an inherited value
\* hides the one an earlier line of the file stored
ProcessValueInheritedFirst(value, inherited, current, outcomes) ==
    LET combinedEnvForLookup == mergeMaps(current, inherited)
        ctx == [inherited |-> inherited, current |-> current,
                lookup |-> combinedEnvForLookup, outcomes |-> outcomes]
        expanded == expandVarsInString(value, combinedEnvForLookup)
        p1 == applyCommandSubstitution(expanded, Passes[1], ctx)
        p2 == ThenPass(p1, Passes[2], ctx)
    IN  ThenPass(p2, Passes[3], ctx)

\* the $(...) pass runs before the $[...] pass
ProcessValueGenericFirst(value, inherited, current, outcomes) ==
    LET combinedEnvForLookup == mergeMaps(inherited, current)
        ctx == [inherited |-> inherited, current |-> current,
                lookup |-> combinedEnvForLookup, outcomes |-> outcomes]
        expanded == expandVarsInString(value, combinedEnvForLookup)
        p1 == applyCommandSubstitution(expanded, Passes[1], ctx)
        p2 == ThenPass(p1, Passes[3], ctx)
    IN  ThenPass(p2, Passes[2], ctx)

\* parseEnvFile, "Process Value": the variable expansion pass, then the
\* gopass pass, the $[...] pass and the $(...) pass
ProcessValue(value, inherited, current, outcomes) ==
    LET combinedEnvForLookup == mergeMaps(inherited, current)
        ctx == [inherited |-> inherited, current |-> current,
                lookup |-> combinedEnvForLookup, outcomes |-> outcomes]
        expanded == expandVarsInString(value, combinedEnvForLookup)
        p1 == applyCommandSubstitution(expanded, Passes[1], ctx)
        p2 == ThenPass(p1, Passes[2], ctx)
    IN  ThenPass(p2, Passes[3], ctx)

----------------------------------------------------------------------------
(* The line parser of parseEnvFile. *)

\* what a backslash escape of a double-quoted Go string stands for; the
\* escapes \x, \u, \U and the octal ones are in no input of this model
EscapeOf(c) ==
    IF c = "n" THEN <<"\n">>
    ELSE IF c = "t" THEN <<"\t">>
    ELSE IF c = "r" THEN <<"\r">>
    ELSE IF c = "f" THEN <<"\f">>
    ELSE IF c = "a" THEN <<"BEL">>
    ELSE IF c = "b" THEN <<"BS">>
    ELSE IF c = "v" THEN <<"VT">>
    ELSE <<c>>

\* the characters that may follow a backslash between double quotes
IsEscape(c) == c \in {"n", "t", "r", "f", "a", "b", "v", "\\", "\""}

\* strconv.Unquote on what is between the double quotes, [ok, s]: a bare
\* double quote, a line feed, a backslash at the end and an unknown escape
\* are syntax errors
RECURSIVE UnquoteInner(_)
UnquoteInner(in) ==
    IF in = <<>> THEN [ok |-> TRUE, s |-> <<>>]
    ELSE IF in[1] = "\"" \/ in[1] = "\n" THEN [ok |-> FALSE, s |-> <<>>]
    ELSE IF in[1] = "\\"
    THEN IF Len(in) < 2 \/ ~IsEscape(in[2]) THEN [ok |-> FALSE, s |-> <<>>]
         ELSE LET rest == UnquoteInner(Drop(in, 2))
              IN  [ok |-> rest.ok, s |-> EscapeOf(in[2]) \o rest.s]
    ELSE LET rest == UnquoteInner(Tail(in))
         IN  [ok |-> rest.ok, s |-> <<in[1]>> \o rest.s]

\* a value that cannot be unquoted is kept as it is, and nothing is said
HandleQuotesSilent(value) ==
    LET inner == SubSeq(value, 2, Len(value) - 1)
    IN  IF Len(value) >= 2 /\ value[1] = "\"" /\ value[Len(value)] = "\""
        THEN LET u == UnquoteInner(inner)
             IN  IF u.ok THEN [value |-> u.s, warns |-> <<>>]
                 ELSE [value |-> value, warns |-> <<>>]
        ELSE IF Len(value) >= 2 /\ value[1] = "'" /\ value[Len(value)] = "'"
        THEN [value |-> inner, warns |-> <<>>]
        ELSE [value |-> value, warns |-> <<>>]

\* parseEnvFile, "Handle quoted values": [value, warns]
HandleQuotes(value) ==
    LET inner == SubSeq(value, 2, Len(value) - 1)
    IN  IF Len(value) >= 2 /\ value[1] = "\"" /\ value[Len(value)] = "\""
        THEN LET u == UnquoteInner(inner)
             IN  IF u.ok THEN [value |-> u.s, warns |-> <<>>]
                 ELSE [value |-> inner,
                       warns |-> <<[what |-> "could not unquote", pass |-> ""]>>]
        ELSE IF Len(value) >= 2 /\ value[1] = "'" /\ value[Len(value)] = "'"
        THEN [value |-> inner, warns |-> <<>>]
        ELSE [value |-> value, warns |-> <<>>]

\* a line without "=" defines the key it holds, with an empty value
ParseLineBareKey(text) ==
    LET line == TrimSpace(text)
        eq   == IndexFrom(line, 1, "=")
    IN  IF line = <<>> \/ line[1] = "#"
        THEN [kind |-> "skipped", key |-> <<>>, value |-> <<>>, warns |-> <<>>]
        ELSE IF eq = 0
        THEN [kind |-> "defined", key |-> line, value |-> <<>>, warns |-> <<>>]
        ELSE LET q == HandleQuotes(TrimSpace(Drop(line, eq)))
             IN  [kind  |-> "defined",
                  key   |-> TrimSpace(Take(line, eq - 1)),
                  value |-> ReplaceAll(q.value, <<"\\", "$">>,
                                       literalDollarPlaceholder),
                  warns |-> q.warns]

\* the escaped dollars are left as written
ParseLineKeepsEscape(text) ==
    LET line == TrimSpace(text)
        eq   == IndexFrom(line, 1, "=")
    IN  IF line = <<>> \/ line[1] = "#"
        THEN [kind |-> "skipped", key |-> <<>>, value |-> <<>>, warns |-> <<>>]
        ELSE IF eq = 0
        THEN [kind |-> "malformed", key |-> <<>>, value |-> <<>>,
              warns |-> <<[what |-> "malformed line", pass |-> ""]>>]
        ELSE LET q == HandleQuotes(TrimSpace(Drop(line, eq)))
             IN  [kind  |-> "defined",
                  key   |-> TrimSpace(Take(line, eq - 1)),
                  value |-> q.value,
                  warns |-> q.warns]

\* parseEnvFile, from the trimming of the line to the placeholder for "\$":
\* what the line is, its key, and its value as the passes receive it
ParseLine(text) ==
    LET line == TrimSpace(text)
        eq   == IndexFrom(line, 1, "=")
    IN  IF line = <<>> \/ line[1] = "#"
        THEN [kind |-> "skipped", key |-> <<>>, value |-> <<>>, warns |-> <<>>]
        ELSE IF eq = 0
        THEN [kind |-> "malformed", key |-> <<>>, value |-> <<>>,
              warns |-> <<[what |-> "malformed line", pass |-> ""]>>]
        ELSE LET q == HandleQuotes(TrimSpace(Drop(line, eq)))
             IN  [kind  |-> "defined",
                  key   |-> TrimSpace(Take(line, eq - 1)),
                  value |-> ReplaceAll(q.value, <<"\\", "$">>,
                                       literalDollarPlaceholder),
                  warns |-> q.warns]

----------------------------------------------------------------------------
(* The inputs: the lines a file may hold, the process environments and the *)
(* outcomes of the runner, by suite.                                       *)

A == <<"A">>

B == <<"B">>

\* the line KEY=VALUE
Def(key, value) == key \o <<"=">> \o value

\* $NAME, ${NAME}, \$, $(COMMAND), $[COMMAND]
Ref(name) == <<"$">> \o name

RefB(name) == <<"$", "{">> \o name \o <<"}">>

Esc == <<"\\", "$">>

Paren(command) == <<"$", "(">> \o command \o <<")">>

Brack(command) == <<"$", "[">> \o command \o <<"]">>

Env1(key, value) == [k \in {key} |-> value]

Ran(out) == [ok |-> TRUE, out |-> out]

Failed == [ok |-> FALSE, out |-> <<>>]

\* suite "vars": references between lines, files and the process environment
VarLines ==
    { Def(A, <<"x">>),
      Def(B, <<"y">>),
      Def(A, Ref(A)),
      Def(B, Ref(B)),
      Def(A, Ref(B) \o <<"/", "a">>),
      Def(B, RefB(A) \o <<"b">>),
      Def(B, <<"$">> \o RefB(<<"U">>) \o A),
      Def(B, Ref(<<"A","b">>)) }

\* what follows the escaped dollar of a line A=\$T
EscapedTexts ==
    { <<"1", "0", "0">>, B, <<"(", "c", ")">>, <<"[", "c", "]">> }

\* suite "escape": escaped dollars, and lines that refer to their keys
EscapeLines ==
    { Def(A, Esc \o t) : t \in EscapedTexts }
        \cup { Def(B, Ref(A)), Def(B, RefB(A) \o Ref(A)) }

\* the commands of suite "commands"
EchoOf(ref) == <<"e", " ">> \o ref

GopassShow(path) == <<"g","o","p","a","s","s"," ","s","h","o","w"," ">> \o path

\* suite "commands": the three forms of command substitution, with a
\* reference to a key in the command
CommandLines ==
    { Def(A, <<"r">>),
      Def(B, Paren(EchoOf(Ref(A)))),
      Def(A, Brack(EchoOf(RefB(B)))),
      Def(B, Paren(GopassShow(Ref(A)))),
      Def(A, <<"x">> \o Brack(<<"c">>) \o <<"y">>) }

\* the values of suite "layout"
TabValue == <<"\"", "x", "\\", "t", "y", "\"">>

BadEscapeValue == <<"\"", "\\", "q">> \o Ref(A) \o <<"\"">>

OpenQuoteValue == <<"\"", "x">>

CommandThenUnbound == Brack(<<"c">>) \o Ref(<<"U">>)

\* suite "layout": a blank line, a comment, a line without "=", values
\* between double quotes that unquote, that do not, and that are not closed,
\* and a command followed by a reference to an unbound name
LayoutLines ==
    { <<" ">>,
      <<" ", "#", "A", "=", "x">>,
      <<"A">>,
      Def(A, <<"x">>),
      Def(B, TabValue),
      Def(B, BadEscapeValue),
      Def(B, OpenQuoteValue),
      Def(A, CommandThenUnbound) }

\* the line B=$(gopass ARGS)
GopassLine(args) == Def(B, Paren(<<"g","o","p","a","s","s"," ">> \o args))

\* suite "gopass": the secret lookup with and without "show", with a
\* reference in the path and with a path that begins with the letters show
GopassLines ==
    { Def(A, <<"p">>),
      GopassLine(<<"s","h","o","w"," ">> \o Ref(A) \o <<"/", "k">>),
      GopassLine(<<"q">>),
      GopassLine(<<"s","h","o","w","x">>) }

\* the backtick, which a string of this model cannot hold as it is written
Backtick == "BACKTICK"

\* the commands of suite "brackets": with parentheses and backticks, with a
\* nested $(...) and with a nested secret lookup
BracketCommands ==
    { <<"e", " ", "(", "G", ")", " ", Backtick, "d", Backtick>>,
      EchoOf(Paren(<<"d">>)),
      EchoOf(Paren(<<"g","o","p","a","s","s"," ","p">>)) }

\* suite "brackets": a plain line and the lines A=$[COMMAND]
BracketLines ==
    {Def(B, <<"y">>)} \cup {Def(A, Brack(c)) : c \in BracketCommands}

\* 'TEXT'
Single(inner) == <<"'">> \o inner \o <<"'">>

\* what stands between the single quotes of the lines of suite "quotes"
SingleQuoted ==
    { <<"x", "\\", "t", "y">>, Ref(B), Esc \o B }

\* VALUE # c
Commented(value) == value \o <<" ", "#", " ", "c">>

\* the values of suite "quotes" that a comment follows: plain, quoted, and a
\* command substitution
CommentedValues ==
    { <<"x">>, <<"\"", "x", "\"">>, Paren(<<"c">>) }

\* suite "quotes": values between single quotes, and values followed by a
\* comment
QuoteLines ==
    {Def(B, <<"y">>)}
        \cup {Def(A, Single(t)) : t \in SingleQuoted}
        \cup {Def(A, Commented(v)) : v \in CommentedValues}

\* suite "retries": a line without a token, one with a $(...) and a $[...]
\* token, and one with a secret lookup
RetryLines ==
    { Def(A, <<"x">>),
      Def(B, Paren(<<"c">>) \o Brack(<<"d">>)),
      Def(A, Paren(<<"g","o","p","a","s","s"," ","p">>)) }

\* suite "order": a line with a token of each form, the secret lookup last
\* and the $(...) token first, a line with two $[...] tokens, and a plain line
OrderLines ==
    { Def(A, Paren(<<"c">>) \o Brack(<<"d">>)
                 \o Paren(<<"g","o","p","a","s","s"," ","p">>)),
      Def(B, Brack(<<"d">>) \o Brack(<<"f">>)),
      Def(B, <<"y">>) }

\* suite "output": a token of each command form with text before it, after
\* it or both, and a plain line
OutputLines ==
    { Def(A, <<"x">> \o Brack(<<"c">>) \o <<"y">>),
      Def(B, <<"q">> \o Paren(<<"c">>)),
      Def(A, Paren(<<"g","o","p","a","s","s"," ","p">>) \o <<"y">>),
      Def(B, <<"z">>) }

\* what the commands of suite "output" print: a text with two newlines at
\* its end, and a reference to B with one
Printed ==
    { <<"v", "\n", "\n">>, Ref(B) \o <<"\n">> }

\* suite "cycle": three keys that refer to one another in a circle
CycleLines ==
    { Def(A, Ref(B)), Def(B, Ref(<<"C">>)), Def(<<"C">>, Ref(A)) }

\* suite "dollar": an escaped dollar next to a reference, without braces and
\* with them, a key that holds an escaped dollar, and a command
DollarLines ==
    { Def(A, <<"x">>),
      Def(B, Ref(A) \o Esc \o B),
      Def(B, RefB(A) \o Esc \o B),
      Def(A, Esc \o <<"5">>),
      Def(B, Brack(<<"c">>)) }

\* suite "taint": a $[...] token, a $(...) token, and a reference to the key
\* they define
TaintLines ==
    { Def(A, Brack(<<"c">>)), Def(A, Paren(<<"c">>)), Def(B, Ref(A)) }

\* suite "redefine": lines that define A, two of them from A itself
RedefineLines ==
    { Def(A, <<"x">>),
      Def(A, Ref(A) \o <<"/", "a">>),
      Def(A, <<"p">> \o RefB(A) \o <<"b">>) }

LinesOf(s) ==
    IF s = "vars" THEN VarLines
    ELSE IF s = "redefine" THEN RedefineLines
    ELSE IF s = "taint" THEN TaintLines
    ELSE IF s = "dollar" THEN DollarLines
    ELSE IF s = "cycle" THEN CycleLines
    ELSE IF s = "output" THEN OutputLines
    ELSE IF s = "order" THEN OrderLines
    ELSE IF s = "escape" THEN EscapeLines
    ELSE IF s = "layout" THEN LayoutLines
    ELSE IF s = "gopass" THEN GopassLines
    ELSE IF s = "brackets" THEN BracketLines
    ELSE IF s = "quotes" THEN QuoteLines
    ELSE IF s = "retries" THEN RetryLines
    ELSE CommandLines

OsEnvsOf(s) ==
    IF s = "vars" THEN {EmptyMap, Env1(A, <<"o">>), Env1(B, Ref(A))}
    ELSE IF s = "cycle" THEN {EmptyMap, Env1(B, Ref(<<"C">>))}
    ELSE IF s = "order" THEN {Env1(A, <<"o">>)}
    ELSE IF s = "escape" THEN {EmptyMap, Env1(B, <<"o">>)}
    ELSE IF s = "layout" THEN {EmptyMap, Env1(A, <<"o">>)}
    ELSE {EmptyMap, Env1(A, <<"o">>)}

OutcomesOf(s) ==
    IF s = "commands" THEN {Failed, Ran(<<>>), Ran(<<"v", "\n">>)}
    ELSE IF s = "output" THEN {Ran(out) : out \in Printed}
    ELSE IF s = "taint" THEN {Ran(<<"v">>), Ran(Paren(<<"d">>))}
    ELSE IF s \in {"layout", "retries"}
    THEN {Failed, Ran(<<>>), Ran(<<"v">>)}
    ELSE IF s = "gopass"
    THEN {Failed, Ran(<<"v", "\n">>), Ran(<<"v", "\n", "\n">>)}
    ELSE {Failed, Ran(<<"v">>)}

----------------------------------------------------------------------------
(* The program: main, from the loop over the files of the chain on, and    *)
(* parseEnvFile line by line.                                              *)

\* last, before the first line of a file.  Its fields: what the line was
\* (kind), its number in the file, its text, its key, its value as the
\* passes received it, the <<key, value>> pairs the earlier lines of the file
\* stored, in order (before), the value stored (out), the runner invocations
\* made (calls) and the warnings written (warns)
NoLine ==
    [kind |-> "none", lineNum |-> 0, text |-> <<>>, key |-> <<>>,
     value |-> <<>>, before |-> <<>>, out |-> <<>>, calls |-> <<>>,
     warns |-> <<>>]

\* the pairs stored by the lines of the current file so far
StoredSoFar ==
    IF last.kind = "defined"
    THEN Append(last.before, <<last.key, last.out>>)
    ELSE last.before

\* what parseEnvFile returns: (map, nil) or (nil, err); err is "none", "open"
\* or "scan"
ReturnMap(m) == [isNil |-> FALSE, map |-> m, err |-> "none"]

ReturnErr(e) == [isNil |-> TRUE, map |-> EmptyMap, err |-> e]

\* the characters of the keys of this model, in the order of their bytes
NameChars ==
    <<"0","1","2","3","4","5","6","7","8","9",
      "A","B","C","D","E","F","G","H","I","J","K","L","M",
      "N","O","P","Q","R","S","T","U","V","W","X","Y","Z",
      "_",
      "a","b","c","d","e","f","g","h","i","j","k","l","m",
      "n","o","p","q","r","s","t","u","v","w","x","y","z">>

ByteOf(c) == CHOOSE i \in 1..Len(NameChars) : NameChars[i] = c

\* s < t, as sort.Strings compares
RECURSIVE StringLess(_, _)
StringLess(s, t) ==
    IF t = <<>> THEN FALSE
    ELSE IF s = <<>> THEN TRUE
    ELSE IF s[1] = t[1] THEN StringLess(Tail(s), Tail(t))
    ELSE ByteOf(s[1]) < ByteOf(t[1])

\* sort.Strings on a set of keys
RECURSIVE SortStrings(_)
SortStrings(keys) ==
    IF keys = {} THEN <<>>
    ELSE LET k == CHOOSE x \in keys : \A y \in keys \ {x} : StringLess(x, y)
         IN  <<k>> \o SortStrings(keys \ {k})

\* mapToSlice: the strings KEY=VALUE, by ascending key
mapToSlice(m) ==
    LET keys == SortStrings(DOMAIN m)
    IN  [i \in 1..Len(keys) |-> keys[i] \o <<"=">> \o m[keys[i]]]

\* strings.SplitN(s, "=", 2)
SplitN2(s) ==
    LET eq == IndexFrom(s, 1, "=")
    IN  IF eq = 0 THEN <<s>> ELSE <<Take(s, eq - 1), Drop(s, eq)>>

\* the verb %q of fmt, on the characters of this model
RECURSIVE QuoteInner(_)
QuoteInner(s) ==
    IF s = <<>> THEN <<>>
    ELSE (IF s[1] = "\"" THEN <<"\\", "\"">>
          ELSE IF s[1] = "\\" THEN <<"\\", "\\">>
          ELSE IF s[1] = "\n" THEN <<"\\", "n">>
          ELSE IF s[1] = "\t" THEN <<"\\", "t">>
          ELSE IF s[1] = "\r" THEN <<"\\", "r">>
          ELSE IF s[1] = "\f" THEN <<"\\", "f">>
          ELSE IF s[1] = "BEL" THEN <<"\\", "a">>
          ELSE IF s[1] = "BS" THEN <<"\\", "b">>
          ELSE IF s[1] = "VT" THEN <<"\\", "v">>
          ELSE <<s[1]>>) \o QuoteInner(Tail(s))

Quote(s) == <<"\"">> \o QuoteInner(s) \o <<"\"">>

\* the lines of --view (prefix empty) and of --export (prefix "export ")
PrintedLines(jointResolvedEnvVars, prefix) ==
    [i \in 1..Len(jointResolvedEnvVars) |->
        LET parts == SplitN2(jointResolvedEnvVars[i])
        IN  IF Len(parts) = 2
            THEN prefix \o parts[1] \o <<"=">> \o Quote(parts[2])
            ELSE prefix \o jointResolvedEnvVars[i]]

InitOf(s) ==
    /\ suite = s
    /\ pc = "locate"
    /\ located = 0
    /\ fatal = "none"
    /\ osEnvMap \in OsEnvsOf(s)
    /\ jointResolvedEnvMap = EmptyMap
    /\ inheritedEnvMap = osEnvMap
    /\ initialEnvMap = EmptyMap
    /\ fileNo = 0
    /\ nLines = 0
    /\ returned = ReturnErr("none")
    /\ mode = "none"
    /\ stdout = <<>>
    /\ envp = <<>>
    /\ fileMaps = <<>>
    /\ last = NoLine

\* main, the loop over the identifiers: os.Stat finds the file of the next
\* one, in the current directory or in the configured one
LocateFile ==
    /\ pc = "locate"
    /\ located < MaxFiles
    /\ located' = located + 1
    /\ UNCHANGED <<suite, pc, fatal, osEnvMap, jointResolvedEnvMap,
                   inheritedEnvMap, initialEnvMap, fileNo, nLines, returned,
                   mode, stdout, envp, fileMaps, last>>

\* a file is looked for when its turn to be parsed has come
LocateFailsLate ==
    /\ pc = "chain"
    /\ fileNo < located
    /\ pc' = "exit1"
    /\ fatal' = "not found"
    /\ UNCHANGED <<suite, located, osEnvMap, jointResolvedEnvMap,
                   inheritedEnvMap, initialEnvMap, fileNo, nLines, returned,
                   mode, stdout, envp, fileMaps, last>>

\* the file of the next identifier is in neither directory, or os.Stat fails
\* otherwise: main reports it and exits with 1
LocateFails ==
    /\ pc = "locate"
    /\ located < MaxFiles
    /\ pc' = "exit1"
    /\ fatal' = "not found"
    /\ UNCHANGED <<suite, located, osEnvMap, jointResolvedEnvMap,
                   inheritedEnvMap, initialEnvMap, fileNo, nLines, returned,
                   mode, stdout, envp, fileMaps, last>>

\* every identifier has its file: main goes on to the loop over the files
StartChain ==
    /\ pc = "locate"
    /\ pc' = "chain"
    /\ UNCHANGED <<suite, located, fatal, osEnvMap, jointResolvedEnvMap,
                   inheritedEnvMap, initialEnvMap, fileNo, nLines, returned,
                   mode, stdout, envp, fileMaps, last>>

\* main calls parseEnvFile on the next file of the chain, which opens it
OpenFile ==
    /\ pc = "chain"
    /\ fileNo < located
    /\ pc' = "scan"
    /\ fileNo' = fileNo + 1
    /\ initialEnvMap' = EmptyMap
    /\ last' = NoLine
    /\ UNCHANGED <<suite, located, fatal, osEnvMap, jointResolvedEnvMap,
                   inheritedEnvMap, nLines, returned, mode, stdout, envp,
                   fileMaps>>

\* os.Open fails: parseEnvFile returns (nil, err) and main exits with 1
OpenFails ==
    /\ pc = "chain"
    /\ fileNo < located
    /\ pc' = "exit1"
    /\ fatal' = "parse"
    /\ fileNo' = fileNo + 1
    /\ returned' = ReturnErr("open")
    /\ last' = NoLine
    /\ UNCHANGED <<suite, located, osEnvMap, jointResolvedEnvMap,
                   inheritedEnvMap, initialEnvMap, nLines, mode, stdout, envp,
                   fileMaps>>

\* a line that writes a warning ends the parse with an error
ScanLineFatalWarnings ==
    /\ pc = "scan"
    /\ nLines < MaxLines
    /\ \E text \in LinesOf(suite) :
         LET p == ParseLine(text)
         IN  IF p.kind = "defined"
             THEN \E r \in ProcessValue(p.value, inheritedEnvMap, initialEnvMap,
                                        OutcomesOf(suite)) :
                    /\ initialEnvMap' = MapSet(initialEnvMap, p.key, r.out)
                    /\ last' = [kind |-> p.kind, lineNum |-> last.lineNum + 1,
                                text |-> text, key |-> p.key,
                                value |-> p.value, before |-> StoredSoFar,
                                out |-> r.out, calls |-> r.calls,
                                warns |-> p.warns \o r.warns]
             ELSE /\ initialEnvMap' = initialEnvMap
                  /\ last' = [kind |-> p.kind, lineNum |-> last.lineNum + 1,
                              text |-> text, key |-> <<>>,
                              value |-> <<>>, before |-> StoredSoFar,
                              out |-> <<>>, calls |-> <<>>, warns |-> p.warns]
    /\ nLines' = nLines + 1
    /\ pc' = IF last'.warns = <<>> THEN "scan" ELSE "exit1"
    /\ returned' = IF last'.warns = <<>> THEN returned ELSE ReturnErr("scan")
    /\ UNCHANGED <<suite, located, fatal, osEnvMap, jointResolvedEnvMap,
                   inheritedEnvMap, fileNo, mode, stdout, envp, fileMaps>>

\* one turn of the scanner loop of parseEnvFile, on the line text
ScanLine ==
    /\ pc = "scan"
    /\ nLines < MaxLines
    /\ \E text \in LinesOf(suite) :
         LET p == ParseLine(text)
         IN  IF p.kind = "defined"
             THEN \E r \in ProcessValue(p.value, inheritedEnvMap, initialEnvMap,
                                        OutcomesOf(suite)) :
                    /\ initialEnvMap' = MapSet(initialEnvMap, p.key, r.out)
                    /\ last' = [kind |-> p.kind, lineNum |-> last.lineNum + 1,
                                text |-> text, key |-> p.key,
                                value |-> p.value, before |-> StoredSoFar,
                                out |-> r.out, calls |-> r.calls,
                                warns |-> p.warns \o r.warns]
             ELSE /\ initialEnvMap' = initialEnvMap
                  /\ last' = [kind |-> p.kind, lineNum |-> last.lineNum + 1,
                              text |-> text, key |-> <<>>,
                              value |-> <<>>, before |-> StoredSoFar,
                              out |-> <<>>, calls |-> <<>>, warns |-> p.warns]
    /\ nLines' = nLines + 1
    /\ UNCHANGED <<suite, pc, located, fatal, osEnvMap, jointResolvedEnvMap,
                   inheritedEnvMap, fileNo, returned, mode, stdout, envp,
                   fileMaps>>

\* the map read so far is returned with the error, and main goes on with it
ScanFailsKeepsPartial ==
    /\ pc = "scan"
    /\ pc' = "chain"
    /\ returned' = [isNil |-> FALSE, map |-> initialEnvMap, err |-> "scan"]
    /\ jointResolvedEnvMap' = mergeMaps(jointResolvedEnvMap, initialEnvMap)
    /\ inheritedEnvMap' = mergeMaps(osEnvMap, jointResolvedEnvMap')
    /\ UNCHANGED <<suite, located, fatal, osEnvMap, initialEnvMap, fileNo,
                   nLines, mode, stdout, envp, fileMaps, last>>

\* scanner.Err() is not nil: parseEnvFile returns (nil, err), main exits
ScanFails ==
    /\ pc = "scan"
    /\ pc' = "exit1"
    /\ fatal' = "parse"
    /\ returned' = ReturnErr("scan")
    /\ UNCHANGED <<suite, located, osEnvMap, jointResolvedEnvMap,
                   inheritedEnvMap, initialEnvMap, fileNo, nLines, mode,
                   stdout, envp, fileMaps, last>>

\* the inherited map is not rebuilt: the next file inherits the process
\* environment alone
EndOfFileKeepsInherited ==
    /\ pc = "scan"
    /\ pc' = "chain"
    /\ returned' = ReturnMap(initialEnvMap)
    /\ jointResolvedEnvMap' = mergeMaps(jointResolvedEnvMap, initialEnvMap)
    /\ fileMaps' = Append(fileMaps, initialEnvMap)
    /\ UNCHANGED <<suite, located, fatal, osEnvMap, inheritedEnvMap,
                   initialEnvMap, fileNo, nLines, mode, stdout, envp, last>>

\* the merge writes into its first argument: the map of the process
\* environment takes the keys of the files
EndOfFileMergesInPlace ==
    /\ pc = "scan"
    /\ pc' = "chain"
    /\ returned' = ReturnMap(initialEnvMap)
    /\ jointResolvedEnvMap' = mergeMaps(jointResolvedEnvMap, initialEnvMap)
    /\ osEnvMap' = mergeMaps(osEnvMap, jointResolvedEnvMap')
    /\ inheritedEnvMap' = osEnvMap'
    /\ fileMaps' = Append(fileMaps, initialEnvMap)
    /\ UNCHANGED <<suite, located, fatal, initialEnvMap, fileNo, nLines, mode,
                   stdout, envp, last>>

\* the scanner is at the end of the file: parseEnvFile returns its map, and
\* main folds it into the joint map and rebuilds the inherited one
EndOfFile ==
    /\ pc = "scan"
    /\ pc' = "chain"
    /\ returned' = ReturnMap(initialEnvMap)
    /\ jointResolvedEnvMap' = mergeMaps(jointResolvedEnvMap, initialEnvMap)
    /\ inheritedEnvMap' = mergeMaps(osEnvMap, jointResolvedEnvMap')
    /\ fileMaps' = Append(fileMaps, initialEnvMap)
    /\ UNCHANGED <<suite, located, fatal, osEnvMap, initialEnvMap, fileNo,
                   nLines, mode, stdout, envp, last>>

\* only the first occurrence of old is replaced
RECURSIVE ReplaceFirst(_, _, _)
ReplaceFirst(s, old, new) ==
    IF s = <<>> THEN <<>>
    ELSE IF HasPrefix(s, old) THEN new \o Drop(s, Len(old))
    ELSE <<s[1]>> \o ReplaceFirst(Tail(s), old, new)

\* the final pass restores one dollar per value
RestoreFirstDollar(m) ==
    [k \in DOMAIN m |-> ReplaceFirst(m[k], literalDollarPlaceholder, <<"$">>)]

\* main, "Final pass": the placeholder becomes "$" in every value
RestoreDollars(m) ==
    [k \in DOMAIN m |-> ReplaceAll(m[k], literalDollarPlaceholder, <<"$">>)]

\* the chain is exhausted: main restores the dollars and goes on to its output
Finish ==
    /\ pc = "chain"
    /\ fileNo = located
    /\ pc' = "done"
    /\ jointResolvedEnvMap' = RestoreDollars(jointResolvedEnvMap)
    /\ UNCHANGED <<suite, located, fatal, osEnvMap, inheritedEnvMap,
                   initialEnvMap, fileNo, nLines, returned, mode, stdout,
                   envp, fileMaps, last>>

\* the flags --view, --export and --sandboxed are fixed before the chain is
\* read, and nothing reads them before this point: the mode is drawn here

\* mode 4, --view: the variables are printed and the process exits with 0
View ==
    /\ pc = "done"
    /\ pc' = "exit0"
    /\ mode' = "view"
    /\ stdout' = PrintedLines(mapToSlice(jointResolvedEnvMap), <<>>)
    /\ UNCHANGED <<suite, located, fatal, osEnvMap, jointResolvedEnvMap,
                   inheritedEnvMap, initialEnvMap, fileNo, nLines, returned,
                   envp, fileMaps, last>>

\* mode 3, --export: the export commands are printed and main returns
Export ==
    /\ pc = "done"
    /\ pc' = "exit0"
    /\ mode' = "export"
    /\ stdout' = PrintedLines(mapToSlice(jointResolvedEnvMap),
                              <<"e","x","p","o","r","t"," ">>)
    /\ UNCHANGED <<suite, located, fatal, osEnvMap, jointResolvedEnvMap,
                   inheritedEnvMap, initialEnvMap, fileNo, nLines, returned,
                   envp, fileMaps, last>>

\* --sandboxed is not read: the process environment is always passed on
LaunchNeverSandboxed ==
    /\ pc = "done"
    /\ pc' = "exec"
    /\ \E sandBoxed \in BOOLEAN :
         /\ mode' = IF sandBoxed THEN "sandboxed" ELSE "default"
         /\ envp' = mapToSlice(mergeMaps(osEnvMap, jointResolvedEnvMap))
    /\ UNCHANGED <<suite, located, fatal, osEnvMap, jointResolvedEnvMap,
                   inheritedEnvMap, initialEnvMap, fileNo, nLines, returned,
                   stdout, fileMaps, last>>

\* modes 1 and 2: syscall.Exec replaces the process by the target command,
\* with the environment envp
Launch ==
    /\ pc = "done"
    /\ pc' = "exec"
    /\ \E sandBoxed \in BOOLEAN :
         /\ mode' = IF sandBoxed THEN "sandboxed" ELSE "default"
         /\ envp' = IF sandBoxed
                    THEN mapToSlice(jointResolvedEnvMap)
                    ELSE mapToSlice(mergeMaps(osEnvMap, jointResolvedEnvMap))
    /\ UNCHANGED <<suite, located, fatal, osEnvMap, jointResolvedEnvMap,
                   inheritedEnvMap, initialEnvMap, fileNo, nLines, returned,
                   stdout, fileMaps, last>>

\* modes 1 and 2: the executable starts with "-", is not found in PATH, or
\* syscall.Exec returns an error: main exits with 1
LaunchFails ==
    /\ pc = "done"
    /\ pc' = "exit1"
    /\ fatal' = "launch"
    /\ \E sandBoxed \in BOOLEAN :
         mode' = IF sandBoxed THEN "sandboxed" ELSE "default"
    /\ UNCHANGED <<suite, located, osEnvMap, jointResolvedEnvMap,
                   inheritedEnvMap, initialEnvMap, fileNo, nLines, returned,
                   stdout, envp, fileMaps, last>>

Next ==
    \/ LocateFile
    \/ LocateFails
    \/ StartChain
    \/ OpenFile
    \/ OpenFails
    \/ ScanLine
    \/ ScanFails
    \/ EndOfFile
    \/ Finish
    \/ View
    \/ Export
    \/ Launch
    \/ LaunchFails

\* the chain resolves references between lines, files and the environment
Spec == InitOf("vars") /\ [][Next]_vars

\* the files hold escaped dollars
SpecEscape == InitOf("escape") /\ [][Next]_vars

\* the files hold command substitutions
SpecCommands == InitOf("commands") /\ [][Next]_vars

\* the files hold blank, comment and malformed lines and quoted values
SpecLayout == InitOf("layout") /\ [][Next]_vars

\* the files hold secret lookups
SpecGopass == InitOf("gopass") /\ [][Next]_vars

\* the files hold bracket-form commands with nested constructs
SpecBrackets == InitOf("brackets") /\ [][Next]_vars

\* the files hold single-quoted values and values followed by a comment
SpecQuotes == InitOf("quotes") /\ [][Next]_vars

\* the files hold lines with several command substitutions
SpecRetries == InitOf("retries") /\ [][Next]_vars

\* the files hold lines with a token of each form
SpecOrder == InitOf("order") /\ [][Next]_vars

\* the commands print newlines and references
SpecOutput == InitOf("output") /\ [][Next]_vars

\* the files hold escaped dollars next to references, and commands
SpecDollar == InitOf("dollar") /\ [][Next]_vars

\* the files define one key again and again
SpecRedefine == InitOf("redefine") /\ [][Next]_vars

\* the commands print a text that has the form of a command substitution
SpecTaint == InitOf("taint") /\ [][Next]_vars

\* main goes on: the loop over the identifiers comes to its end, the next
\* file is opened, the scanner comes to the end of the file, the end of the
\* chain is seen, and the target command is started
Advance == StartChain \/ OpenFile \/ EndOfFile \/ Finish \/ Launch

\* the files hold keys that refer to one another in a circle.  main is one
\* sequential process, the chain and each of its files are finite, and no
\* step of main waits for anything but a sub-process, of which this suite
\* starts none: main does not stay for ever where it can go on
SpecCycle == InitOf("cycle") /\ [][Next]_vars /\ WF_vars(Advance)

----------------------------------------------------------------------------
(* What the claims speak of. *)

\* the keys of a sequence of <<key, value>> pairs
KeysOf(pairs) == {pairs[i][1] : i \in 1..Len(pairs)}

\* the value of the latest pair of key k, k \in KeysOf(pairs)
LatestOf(pairs, k) ==
    LET n == CHOOSE i \in 1..Len(pairs) :
                 /\ pairs[i][1] = k
                 /\ \A j \in (i + 1)..Len(pairs) : pairs[j][1] # k
    IN  pairs[n][2]

\* the completed files of the chain that define k
FilesWith(k) == {i \in 1..Len(fileMaps) : k \in DOMAIN fileMaps[i]}

\* the latest of them, FilesWith(k) not empty
LatestFileWith(k) == CHOOSE i \in FilesWith(k) : \A j \in FilesWith(k) : j <= i

\* the lines of the inputs whose value is pre $name post or pre ${name} post,
\* pre and post without a dollar
RefLine(key, pre, ref, name, post) ==
    [text |-> Def(key, pre \o ref \o post), name |-> name,
     pre |-> pre, post |-> post]

RefLines ==
    { RefLine(A, <<>>, Ref(A), A, <<>>),
      RefLine(B, <<>>, Ref(B), B, <<>>),
      RefLine(A, <<>>, Ref(B), B, <<"/", "a">>),
      RefLine(B, <<>>, RefB(A), A, <<"b">>),
      RefLine(B, <<>>, Ref(<<"A","b">>), <<"A","b">>, <<>>) }

\* the lines KEY=$KEY
SelfRefLines == {Def(A, Ref(A)), Def(B, Ref(B))}

----------------------------------------------------------------------------
(* The claims. *)

ChainValue(x) ==
    IF x \in KeysOf(last.before) THEN LatestOf(last.before, x)
    ELSE IF FilesWith(x) # {} THEN fileMaps[LatestFileWith(x)][x]
    ELSE IF x \in DOMAIN osEnvMap THEN osEnvMap[x]
    ELSE <<>>

\* C2: while a file of a chain is resolved, a reference to name X expands to
\* the value of the latest earlier line of the file that defines X, else to
\* the value of the latest earlier file of the chain that defines X, else
\* to the value of X in the process environment, else to the empty string.
C2_LookupPrecedence ==
    pc = "scan" =>
        \A t \in RefLines :
            last.text = t.text =>
                last.out = t.pre \o ChainValue(t.name) \o t.post

\* C2, reached: in the second file, ${A} is resolved while the first file
\* and the process environment both hold A, with different values.
C2_Witness ==
    /\ pc = "scan"
    /\ fileNo = 2
    /\ last.text = Def(B, RefB(A) \o <<"b">>)
    /\ A \notin KeysOf(last.before)
    /\ A \in DOMAIN fileMaps[1]
    /\ A \in DOMAIN osEnvMap
    /\ fileMaps[1][A] # osEnvMap[A]
    /\ last.out = fileMaps[1][A] \o <<"b">>

\* C3: after each file of the chain, the last included, the keys of the
\* joint map are the keys of all the files so far, and each key holds the
\* value of the last file that defines it.
C3_LaterFileOverrides ==
    pc = "chain" =>
        /\ DOMAIN jointResolvedEnvMap =
               UNION {DOMAIN fileMaps[i] : i \in 1..Len(fileMaps)}
        /\ \A k \in DOMAIN jointResolvedEnvMap :
               jointResolvedEnvMap[k] = fileMaps[LatestFileWith(k)][k]

\* C3, reached: two files define A differently, and only the first has B.
C3_Witness ==
    /\ pc = "chain"
    /\ Len(fileMaps) = 2
    /\ A \in DOMAIN fileMaps[1]
    /\ A \in DOMAIN fileMaps[2]
    /\ fileMaps[1][A] # fileMaps[2][A]
    /\ B \in DOMAIN fileMaps[1]
    /\ B \notin DOMAIN fileMaps[2]
    /\ jointResolvedEnvMap[B] = fileMaps[1][B]

\* C4, as claimed: for every key K, a line K=$K resolves K to the empty
\* string.
C4_SelfReferenceIsEmpty ==
    (pc = "scan" /\ last.text \in SelfRefLines) => last.out = <<>>

\* C4, amended: a line K=$K resolves K to the empty string, and K is then
\* defined, when no earlier line of the file, no earlier file of the chain
\* and not the process environment binds K; otherwise $K expands to that
\* earlier binding.
C4_SelfReferenceSeesEarlierBinding ==
    (pc = "scan" /\ last.text \in SelfRefLines) =>
        /\ last.key \in DOMAIN initialEnvMap
        /\ initialEnvMap[last.key] = last.out
        /\ IF \/ last.key \in KeysOf(last.before)
              \/ FilesWith(last.key) # {}
              \/ last.key \in DOMAIN osEnvMap
           THEN last.out = ChainValue(last.key)
           ELSE last.out = <<>>

\* C4, reached: A=$A is the first binding of A anywhere.
C4_Witness ==
    /\ pc = "scan"
    /\ last.text = Def(A, Ref(A))
    /\ A \notin KeysOf(last.before)
    /\ FilesWith(A) = {}
    /\ A \notin DOMAIN osEnvMap
    /\ initialEnvMap[A] = <<>>

\* C7: no value stored in the map of a file holds a reference $NAME or
\* ${NAME} whose NAME is bound neither in the inherited environment nor in
\* the map of the file.
C7_NoDanglingReference ==
    pc = "scan" =>
        \A k \in DOMAIN initialEnvMap :
            \A i \in 1..Len(initialEnvMap[k]) :
                LET m == variableExpansionRegex(initialEnvMap[k], i)
                IN  m.ok => m.cap \in (DOMAIN inheritedEnvMap)
                                          \cup (DOMAIN initialEnvMap)

\* the lines of the inputs that hold one command substitution, between the
\* texts pre and post, and the pass that runs it
TokenLine(key, pre, token, post, pass) ==
    [text |-> Def(key, pre \o token \o post), pre |-> pre, post |-> post,
     pass |-> pass]

TokenLines ==
    { TokenLine(B, <<>>, Paren(EchoOf(Ref(A))), <<>>, "generic"),
      TokenLine(A, <<>>, Brack(EchoOf(RefB(B))), <<>>, "alternate"),
      TokenLine(B, <<>>, Paren(GopassShow(Ref(A))), <<>>, "gopass"),
      TokenLine(A, <<"x">>, Brack(<<"c">>), <<"y">>, "alternate") }

\* the number of places of s where the placeholder occurs
Occurrences(s) ==
    Cardinality({i \in 1..Len(s) : OccursAt(s, i, literalDollarPlaceholder)})

\* the names bound for the line last: by an earlier line of the file, by an
\* earlier file of the chain or by the process environment
BoundNames ==
    KeysOf(last.before)
        \cup UNION {DOMAIN fileMaps[i] : i \in 1..Len(fileMaps)}
        \cup DOMAIN osEnvMap

\* C5: an escaped dollar is never a reference nor a command: a line A=\$T,
\* T one of 100, a bound name, (c) and [c], makes no runner invocation and
\* stores the placeholder followed by T; a later line, of this file or of a
\* later one, that refers to A makes no invocation either and stores what A
\* holds; and the final value is $T.
C5_EscapedDollarIsLiteral ==
    \A t \in EscapedTexts :
        LET held == literalDollarPlaceholder \o t
        IN  /\ (pc = "scan" /\ last.text = Def(A, Esc \o t)) =>
                   last.calls = <<>> /\ last.out = held
            /\ (pc = "scan" /\ last.text = Def(B, Ref(A))
                    /\ ChainValue(A) = held) =>
                   last.calls = <<>> /\ last.out = held
            /\ (pc = "scan" /\ last.text = Def(B, RefB(A) \o Ref(A))
                    /\ ChainValue(A) = held) =>
                   last.calls = <<>> /\ last.out = held \o held
            /\ pc = "done" =>
                   \A k \in DOMAIN jointResolvedEnvMap :
                       fileMaps[LatestFileWith(k)][k] = held =>
                           jointResolvedEnvMap[k] = <<"$">> \o t

\* C5, reached: the first file has A=\$(c), the second one B=$A, and the
\* final values of A and of B are $(c).
C5_Witness ==
    /\ pc = "done"
    /\ Len(fileMaps) = 2
    /\ DOMAIN fileMaps[1] = {A}
    /\ fileMaps[1][A] = literalDollarPlaceholder \o <<"(", "c", ")">>
    /\ DOMAIN fileMaps[2] = {B}
    /\ jointResolvedEnvMap[A] = <<"$", "(", "c", ")">>
    /\ jointResolvedEnvMap[B] = <<"$", "(", "c", ")">>

\* main is past its final pass: at its output, or over after it
PastFinalPass ==
    \/ pc \in {"done", "exit0", "exec"}
    \/ pc = "exit1" /\ fatal = "launch"

\* C6: the placeholders are restored once, after the last file, and all of
\* them: until then the joint map holds the values the files returned, and
\* in the final output no value holds the placeholder, each of its
\* occurrences having become one "$"; nor does a line printed by --view or
\* --export, nor the environment of the launched command.
C6_NoPlaceholderInOutput ==
    /\ \A k \in DOMAIN jointResolvedEnvMap :
           LET fromFile == fileMaps[LatestFileWith(k)][k]
           IN  /\ ~PastFinalPass => jointResolvedEnvMap[k] = fromFile
               /\ PastFinalPass =>
                      /\ ~Contains(jointResolvedEnvMap[k],
                                   literalDollarPlaceholder)
                      /\ Len(jointResolvedEnvMap[k]) + Occurrences(fromFile)
                             * (Len(literalDollarPlaceholder) - 1)
                                 = Len(fromFile)
    /\ \A i \in 1..Len(stdout) :
           ~Contains(stdout[i], literalDollarPlaceholder)
    /\ \A i \in 1..Len(envp) :
           ~Contains(envp[i], literalDollarPlaceholder)

\* C6, reached: a value that held the placeholder twice is in the output.
C6_Witness ==
    /\ pc = "done"
    /\ B \in DOMAIN jointResolvedEnvMap
    /\ Occurrences(fileMaps[LatestFileWith(B)][B]) = 2
    /\ jointResolvedEnvMap[B] = <<"$", "1", "0", "0", "$", "1", "0", "0">>

C9_SubprocessEnvironment ==
    pc = "scan" =>
        \A i \in 1..Len(last.calls) :
            last.calls[i].env = [k \in BoundNames |-> ChainValue(k)]

\* C9, reached: the process has A=o, the file has A=r and then B=$(e $A): the
\* sub-process sees A=r and no B.
C9_Witness ==
    /\ pc = "scan"
    /\ osEnvMap = Env1(A, <<"o">>)
    /\ last.text = Def(B, Paren(EchoOf(Ref(A))))
    /\ last.before = << <<A, <<"r">>>> >>
    /\ Len(last.calls) = 1
    /\ last.calls[1].env = Env1(A, <<"r">>)

\* the line last is the token line t, and its command failed or printed
\* nothing
TokenFailed(t) ==
    /\ last.text = t.text
    /\ Len(last.calls) = 1
    /\ ~last.calls[1].ok \/ last.calls[1].out = <<>>

\* the empty string stands in the place of the token of t, one warning was
\* written, and the key of the line is defined
TokenDegraded(t) ==
    /\ last.out = t.pre \o t.post
    /\ last.warns = <<[what |-> IF last.calls[1].ok
                                THEN "returned empty" ELSE "failed",
                       pass |-> t.pass]>>
    /\ last.key \in DOMAIN initialEnvMap
    /\ initialEnvMap[last.key] = last.out

\* C10: a command substitution whose sub-process fails, or succeeds with an
\* empty output, puts the empty string in the place of its token and writes
\* one warning; the key of the line is defined all the same, and the step
\* leaves the program in the scanner loop.
C10_FailedCommandIsEmpty ==
    [][\A t \in TokenLines :
           (nLines' = nLines + 1 /\ TokenFailed(t)') =>
               (TokenDegraded(t)' /\ pc' = "scan")]_vars

\* C10, reached: B=$(gopass show $A) failed, B is defined and empty.
C10_Witness ==
    /\ pc = "scan"
    /\ last.text = Def(B, Paren(GopassShow(Ref(A))))
    /\ ~last.calls[1].ok
    /\ last.warns # <<>>
    /\ initialEnvMap[B] = <<>>

\* what the line last of suite "layout" is to store: the value between its
\* quotes if any, each reference replaced by its binding and each command by
\* the output of its sub-process
ResolvedInLayout ==
    IF last.text = Def(A, <<"x">>) THEN <<"x">>
    ELSE IF last.text = Def(B, TabValue) THEN <<"x", "\t", "y">>
    ELSE IF last.text = Def(B, BadEscapeValue)
    THEN <<"\\", "q">> \o ChainValue(A)
    ELSE IF last.text = Def(B, OpenQuoteValue) THEN OpenQuoteValue
    ELSE IF last.calls[1].ok THEN last.calls[1].out
    ELSE <<>>

\* C11: parseEnvFile returns an error only when the file cannot be opened
\* or the scanner fails.  Every line read, be it malformed, with a value
\* that cannot be unquoted, with a failed or empty command or with an
\* unresolved reference, or be it read after such a line, leaves the parse
\* in its loop with nothing returned, keeps every key stored so far, and,
\* when it is a KEY=VALUE line, stores its resolved value; and the end of
\* the file returns the map of all the keys stored, with no error.
C11_OnlyFileErrors ==
    [][/\ nLines' = nLines + 1 =>
              /\ pc' = "scan"
              /\ returned' = returned
              /\ DOMAIN initialEnvMap \subseteq DOMAIN initialEnvMap'
              /\ last'.kind = "defined" =>
                     /\ last'.key \in DOMAIN initialEnvMap'
                     /\ initialEnvMap'[last'.key] = ResolvedInLayout'
       /\ (pc = "scan" /\ nLines' = nLines) =>
              \/ /\ pc' = "chain"
                 /\ returned' = ReturnMap(initialEnvMap)
                 /\ DOMAIN initialEnvMap = KeysOf(StoredSoFar)
              \/ /\ pc' = "exit1"
                 /\ returned' = ReturnErr("scan")
       /\ returned'.err # "none" => pc' = "exit1"]_vars

\* C11, reached: the command of A=$[c]$U failed, a line wrote nothing to
\* the map, B="\q$A" could not be unquoted, and the file returned A and B.
C11_Witness ==
    /\ pc = "chain"
    /\ returned = ReturnMap([k \in {A, B} |->
                               IF k = A THEN <<>> ELSE <<"\\", "q">>])
    /\ last.lineNum = 3
    /\ last.text = Def(B, BadEscapeValue)
    /\ last.warns # <<>>
    /\ last.before = << <<A, <<>>>> >>

\* C12: a failure to open or to read file k of a chain ends the run:
\* parseEnvFile returns the nil map with the error, the joint map is not
\* touched, the k - 1 files before it are the only ones parsed, nothing has
\* been printed and nothing launched, main exits with 1, and from there on
\* the program takes no step.
C12_FileFailureAborts ==
    [][/\ pc # "exit1"
       /\ returned'.err # "none" =>
              /\ returned' = ReturnErr(returned'.err)
              /\ pc' = "exit1"
              /\ jointResolvedEnvMap' = jointResolvedEnvMap
              /\ fileMaps' = fileMaps
              /\ Len(fileMaps') = fileNo' - 1
              /\ stdout' = <<>>
              /\ envp' = <<>>
              /\ mode' = "none"]_vars

\* C12, reached: the scanner failed on the second file after a line of it
\* had been stored; the first file had been parsed.
C12_Witness ==
    /\ pc = "exit1"
    /\ returned = ReturnErr("scan")
    /\ fileNo = 2
    /\ Len(fileMaps) = 1
    /\ initialEnvMap # EmptyMap
    /\ stdout = <<>>
    /\ mode = "none"

\* the keys the files of the chain define
ChainKeys == UNION {DOMAIN fileMaps[i] : i \in 1..Len(fileMaps)}

\* the environment a process started with the strings KEY=VALUE of slice has
EnvOf(slice) ==
    [k \in {SplitN2(slice[i])[1] : i \in 1..Len(slice)} |->
        LET i == CHOOSE j \in 1..Len(slice) : SplitN2(slice[j])[1] = k
        IN  SplitN2(slice[i])[2]]

\* C13: the environment of the launched command is, with --sandboxed, the
\* joint map and nothing else, its keys being those the files of the chain
\* define; without it, it holds the keys of the process environment and
\* those of the chain, each key of the chain with the value of the joint
\* map and each other key with its value in the process environment.
C13_LaunchEnvironment ==
    pc = "exec" =>
        /\ Len(envp) = Cardinality(DOMAIN EnvOf(envp))
        /\ mode = "sandboxed" =>
               /\ EnvOf(envp) = jointResolvedEnvMap
               /\ DOMAIN EnvOf(envp) = ChainKeys
        /\ mode = "default" =>
               /\ DOMAIN EnvOf(envp) = (DOMAIN osEnvMap) \cup ChainKeys
               /\ \A k \in DOMAIN EnvOf(envp) :
                      EnvOf(envp)[k] = IF k \in ChainKeys
                                       THEN jointResolvedEnvMap[k]
                                       ELSE osEnvMap[k]

\* C13, reached: the process has B=$A, the chain defines A only, and the
\* command is launched with --sandboxed: it gets A and no B.
C13_Witness ==
    /\ pc = "exec"
    /\ mode = "sandboxed"
    /\ osEnvMap = Env1(B, Ref(A))
    /\ ChainKeys = {A}
    /\ envp = <<Def(A, <<"x">>)>>

\* the secret lookups of the inputs: the text of the line and the PATH of
\* its token once the references of the line are expanded
GopassTokens ==
    { [text |-> GopassLine(<<"s","h","o","w"," ">> \o Ref(A) \o <<"/", "k">>),
       path |-> ChainValue(A) \o <<"/", "k">>],
      [text |-> GopassLine(<<"q">>), path |-> <<"q">>],
      [text |-> GopassLine(<<"s","h","o","w","x">>),
       path |-> <<"s","h","o","w","x">>] }

\* C14: a token $(gopass show PATH) or $(gopass PATH) makes one runner
\* invocation, by the secret-lookup pass and none by the $(...) pass, of the
\* command "gopass show --password PATH", PATH being that of the line after
\* variable expansion; the token is replaced by the output less one trailing
\* line feed (by the empty string when the command failed).
C14_GopassCanonicalCommand ==
    pc = "scan" =>
        \A t \in GopassTokens :
            last.text = t.text =>
                /\ Len(last.calls) = 1
                /\ last.calls[1].pass = "gopass"
                /\ last.calls[1].name = defaultShell
                /\ last.calls[1].arg = <<"-c", gopassShowPassword \o t.path>>
                /\ last.out = IF last.calls[1].ok
                              THEN TrimSuffixNewline(last.calls[1].out)
                              ELSE <<>>

\* C15: a token $[COMMAND] whose COMMAND holds parentheses, backticks or a
\* nested $(...) makes one runner invocation, by the $[...] pass, with the
\* whole COMMAND as the command, and is replaced by the output of that
\* invocation (by the empty string when it failed); the secret-lookup pass
\* and the $(...) pass run no part of COMMAND.
C15_BracketCommandIsWhole ==
    pc = "scan" =>
        \A c \in BracketCommands :
            last.text = Def(A, Brack(c)) =>
                /\ Len(last.calls) = 1
                /\ last.calls[1].pass = "alternate"
                /\ last.calls[1].arg = <<"-c", c>>
                /\ last.out = IF last.calls[1].ok
                              THEN last.calls[1].out
                              ELSE <<>>

\* C16: a line that is not blank, is no comment and holds no "=" writes one
\* malformed-line warning, for the line of that number in the file being
\* read, and leaves the map of the file as it was; a blank line and a line
\* whose first character after the white space is "#" leave the map as it
\* was and write no warning.
C16_MalformedAndSkippedLines ==
    [][nLines' = nLines + 1 =>
           /\ last'.lineNum = last.lineNum + 1
           /\ fileNo = 1 => last'.lineNum = nLines'
           /\ last'.text = <<"A">> =>
                  /\ last'.warns = <<[what |-> "malformed line", pass |-> ""]>>
                  /\ initialEnvMap' = initialEnvMap
           /\ last'.text \in {<<" ">>, <<" ", "#", "A", "=", "x">>} =>
                  /\ last'.warns = <<>>
                  /\ initialEnvMap' = initialEnvMap]_vars

\* C16, reached: the second line of a file that has stored A=x is the
\* malformed line "A": a warning is written and A is still x.
C16_Witness ==
    /\ pc = "scan"
    /\ last.text = <<"A">>
    /\ last.kind = "malformed"
    /\ last.lineNum = 2
    /\ last.warns # <<>>
    /\ initialEnvMap = Env1(A, <<"x">>)

\* C17: a value between single quotes is taken as written: the line
\* A='TEXT' stores TEXT, with its backslashes and dollars, and TEXT is the
\* value of A in the final output when no later line or file defines A anew.
C17_SingleQuotesAreLiteral ==
    \A t \in SingleQuoted :
        /\ (pc = "scan" /\ last.text = Def(A, Single(t))) => last.out = t
        /\ (pc = "done" /\ A \in ChainKeys
                /\ last.text = Def(A, Single(t))
                /\ fileNo = LatestFileWith(A)) => jointResolvedEnvMap[A] = t

\* C18: a value that begins and ends with a double quote and that unquotes
\* becomes the interpreted string, with no warning; one that does not unquote
\* writes one warning and becomes the text between its outer quotes, which
\* the passes then resolve; a value that begins with a double quote and does
\* not end with one is kept as it is, with no warning.
C18_DoubleQuotes ==
    pc = "scan" =>
        /\ last.text = Def(B, TabValue) =>
               /\ last.value = <<"x", "\t", "y">>
               /\ last.warns = <<>>
               /\ last.out = <<"x", "\t", "y">>
        /\ last.text = Def(B, BadEscapeValue) =>
               /\ last.value = <<"\\", "q">> \o Ref(A)
               /\ last.warns = <<[what |-> "could not unquote", pass |-> ""]>>
               /\ last.out = <<"\\", "q">> \o ChainValue(A)
        /\ last.text = Def(B, OpenQuoteValue) =>
               /\ last.value = OpenQuoteValue
               /\ last.warns = <<>>
               /\ last.out = OpenQuoteValue

\* C18, reached: after A=x, the value of B="\q$A" could not be unquoted: a
\* warning is written and B is \qx.
C18_Witness ==
    /\ pc = "scan"
    /\ last.text = Def(B, BadEscapeValue)
    /\ last.before = << <<A, <<"x">>>> >>
    /\ last.warns # <<>>
    /\ initialEnvMap[B] = <<"\\", "q", "x">>

\* C19: in a line KEY=VALUE # comment the comment is no part of the value:
\* A=x # c and A="x" # c store x, and A=$(c) # c stores the output of the
\* command c (the empty string when it failed).
C19_TrailingCommentIsDropped ==
    pc = "scan" =>
        /\ last.text = Def(A, Commented(<<"x">>)) => last.out = <<"x">>
        /\ last.text = Def(A, Commented(<<"\"", "x", "\"">>)) =>
               last.out = <<"x">>
        /\ last.text = Def(A, Commented(Paren(<<"c">>))) =>
               /\ Len(last.calls) = 1
               /\ last.out = IF last.calls[1].ok
                             THEN last.calls[1].out
                             ELSE <<>>

\* the runner invocations a line of suite "retries" is to make, as
\* <<pass, command>> pairs in order: one per token, the $[...] token before
\* the $(...) one
InvocationsOf(text) ==
    IF text = Def(B, Paren(<<"c">>) \o Brack(<<"d">>))
    THEN << <<"alternate", <<"d">>>>, <<"generic", <<"c">>>> >>
    ELSE IF text = Def(A, Paren(<<"g","o","p","a","s","s"," ","p">>))
    THEN << <<"gopass", gopassShowPassword \o <<"p">>>> >>
    ELSE <<>>

\* C20: nothing is tried twice: whether its sub-process succeeds, fails or
\* prints nothing, each token of a line makes exactly one runner invocation,
\* so that a line makes as many invocations as it has tokens, and a file as
\* many as its lines have.
C20_NoRetries ==
    pc = "scan" =>
        /\ Len(last.calls) = Len(InvocationsOf(last.text))
        /\ \A i \in 1..Len(last.calls) :
               /\ last.calls[i].pass = InvocationsOf(last.text)[i][1]
               /\ last.calls[i].arg = <<"-c", InvocationsOf(last.text)[i][2]>>

\* C20, reached: of the two commands of B=$(c)$[d], d failed and c printed
\* nothing; each was run once.
C20_Witness ==
    /\ pc = "scan"
    /\ last.text = Def(B, Paren(<<"c">>) \o Brack(<<"d">>))
    /\ Len(last.calls) = 2
    /\ ~last.calls[1].ok
    /\ last.calls[2].ok
    /\ last.calls[2].out = <<>>
    /\ Len(last.warns) = 2

\* the place of a pass among the command passes: 1 for the secret lookup,
\* 2 for $[...], 3 for $(...)
PassRank(pass) == CHOOSE i \in 1..Len(Passes) : Passes[i] = pass

\* the commands a line of suite "order" has for each pass, from left to right
CommandsOf(text, pass) ==
    IF text = Def(A, Paren(<<"c">>) \o Brack(<<"d">>)
                         \o Paren(<<"g","o","p","a","s","s"," ","p">>))
    THEN (IF pass = "gopass" THEN <<gopassShowPassword \o <<"p">>>>
          ELSE IF pass = "alternate" THEN << <<"d">> >>
          ELSE << <<"c">> >>)
    ELSE IF text = Def(B, Brack(<<"d">>) \o Brack(<<"f">>))
    THEN (IF pass = "alternate" THEN << <<"d">>, <<"f">> >> ELSE <<>>)
    ELSE <<>>

\* the commands of the invocations of pass among calls, in the order made
RECURSIVE CommandsRun(_, _)
CommandsRun(calls, pass) ==
    IF calls = <<>> THEN <<>>
    ELSE (IF calls[1].pass = pass THEN <<calls[1].arg[2]>> ELSE <<>>)
             \o CommandsRun(Tail(calls), pass)

\* C21: the runner invocations are made in one order.  A file is opened only
\* when the files before it are complete, and a line is read only in the
\* scanner loop of the file, after the line before it, whose value is in the
\* map of the file by then.  The invocations of a line are those of the
\* secret lookups, then those of the $[...] tokens, then those of the $(...)
\* tokens, each pass from left to right, and each is made with the
\* environment as it stood when the line was read.
C21_InvocationOrder ==
    [][/\ fileNo' # fileNo =>
              /\ pc = "chain"
              /\ fileNo' = fileNo + 1
              /\ Len(fileMaps) = fileNo
       /\ nLines' # nLines =>
              /\ pc = "scan"
              /\ fileNo' = fileNo
              /\ last'.lineNum = last.lineNum + 1
              /\ last.kind = "defined" => initialEnvMap[last.key] = last.out
              /\ \A i \in 1..Len(last'.calls) :
                     /\ last'.calls[i].env =
                            mergeMaps(inheritedEnvMap, initialEnvMap)
                     /\ i > 1 => PassRank(last'.calls[i - 1].pass)
                                     <= PassRank(last'.calls[i].pass)
              /\ \A pass \in {"gopass", "alternate", "generic"} :
                     CommandsRun(last'.calls, pass)
                         = CommandsOf(last'.text, pass)]_vars

\* C21, reached: in the second file, after B=$[d]$[f] stored vv, the line
\* A=$(c)$[d]$(gopass p) ran the secret lookup, then d, then c, each with B=vv.
C21_Witness ==
    /\ pc = "scan"
    /\ fileNo = 2
    /\ last.before = << <<B, <<"v", "v">>>> >>
    /\ Len(last.calls) = 3
    /\ last.calls[1].pass = "gopass"
    /\ last.calls[2].arg = <<"-c", <<"d">>>>
    /\ last.calls[3].arg = <<"-c", <<"c">>>>
    /\ \A i \in 1..3 : B \in DOMAIN last.calls[i].env
                           /\ last.calls[i].env[B] = <<"v", "v">>

\* the lines of suite "output" with a token: the text before the token and
\* the text after it
SplicedLines ==
    { [text |-> Def(A, <<"x">> \o Brack(<<"c">>) \o <<"y">>),
       pre |-> <<"x">>, post |-> <<"y">>],
      [text |-> Def(B, <<"q">> \o Paren(<<"c">>)),
       pre |-> <<"q">>, post |-> <<>>],
      [text |-> Def(A, Paren(<<"g","o","p","a","s","s"," ","p">>) \o <<"y">>),
       pre |-> <<>>, post |-> <<"y">>] }

\* what is to stand in the place of a token whose command printed out: out
\* less one newline at its end, its references replaced
ReplacementOf(out) ==
    IF out = <<"v", "\n", "\n">> THEN <<"v", "\n">>
    ELSE IF out = Ref(B) \o <<"\n">> THEN ChainValue(B)
    ELSE out

\* C22: when the command of a token succeeds, the token alone is replaced:
\* by the output less exactly one newline at its end, in which each reference
\* is replaced by the binding of its name in the lookup scope of the line, or
\* by the empty string when the name has none; the text before the token and
\* the text after it stand as they were.
C22_OutputReplacesToken ==
    pc = "scan" =>
        \A t \in SplicedLines :
            (/\ last.text = t.text
             /\ Len(last.calls) = 1
             /\ last.calls[1].ok) =>
                last.out = t.pre \o ReplacementOf(last.calls[1].out) \o t.post

\* C22, reached: B is z, and the command of A=x$[c]y printed $B and a
\* newline: A is xzy, the y after the token being no part of the name.
C22_Witness ==
    /\ pc = "scan"
    /\ last.text = Def(A, <<"x">> \o Brack(<<"c">>) \o <<"y">>)
    /\ last.before = << <<B, <<"z">>>> >>
    /\ Len(last.calls) = 1
    /\ last.calls[1].ok
    /\ last.calls[1].out = Ref(B) \o <<"\n">>
    /\ last.out = <<"x", "z", "y">>

\* C22, reached as well: the command of the first line of the chain printed
\* $B while nothing binds B: the empty string stands in its place.
C22_WitnessUnbound ==
    /\ pc = "scan"
    /\ osEnvMap = EmptyMap
    /\ fileNo = 1
    /\ last.text = Def(B, <<"q">> \o Paren(<<"c">>))
    /\ last.before = <<>>
    /\ last.calls[1].out = Ref(B) \o <<"\n">>
    /\ last.out = <<"q">>

\* the lookup scope of the line last
ScopeOfLast == [k \in BoundNames |-> ChainValue(k)]

\* C23: each pass is idempotent: the variable expansion pass applied to the
\* value it produced for a line, with the lookup scope of the line, gives
\* that value again, and each command pass applied to the value the line
\* stored replaces nothing and makes no runner invocation.
C23_PassesAreIdempotent ==
    (pc = "scan" /\ last.kind = "defined") =>
        LET once == expandVarsInString(last.value, ScopeOfLast)
            ctx  == [inherited |-> ScopeOfLast, current |-> EmptyMap,
                     lookup |-> ScopeOfLast, outcomes |-> OutcomesOf(suite)]
        IN  /\ expandVarsInString(once, ScopeOfLast) = once
            /\ \A i \in 1..Len(Passes) :
                   \A r \in applyCommandSubstitution(last.out, Passes[i], ctx) :
                       r.out = last.out /\ r.calls = <<>>

\* the lines of suite "cycle" and the name each refers to
CycleRefs ==
    { [text |-> Def(A, Ref(B)), name |-> B],
      [text |-> Def(B, Ref(<<"C">>)), name |-> <<"C">>],
      [text |-> Def(<<"C">>, Ref(A)), name |-> A] }

\* the line last of suite "cycle" stored the binding its reference had when
\* the line was read, as it is, or the empty string when it had none
ResolvedInOnePass ==
    \A t \in CycleRefs :
        last.text = t.text =>
            /\ last.out = ChainValue(t.name)
            /\ last.calls = <<>>
            /\ initialEnvMap[last.key] = last.out

\* main has left: by os.Exit, by returning, or by syscall.Exec
Terminated == pc \in {"exit0", "exit1", "exec"}

C25_InheritedIsUnchanged ==
    [][/\ osEnvMap' = osEnvMap
       /\ fileNo = 0 => inheritedEnvMap = osEnvMap
       /\ inheritedEnvMap' # inheritedEnvMap =>
              /\ pc = "scan"
              /\ pc' = "chain"
       /\ (pc = "scan" /\ pc' = "chain") =>
              /\ inheritedEnvMap' = mergeMaps(osEnvMap, jointResolvedEnvMap')
              /\ jointResolvedEnvMap'
                     = mergeMaps(jointResolvedEnvMap, initialEnvMap)
              /\ initialEnvMap' = initialEnvMap
              /\ returned'.map = initialEnvMap]_vars

\* C25, reached: the process has A=o and two files that define A were
\* resolved: the inherited map has the value of the files, the map of the
\* process environment has o.
C25_Witness ==
    /\ pc = "chain"
    /\ fileNo = 2
    /\ Len(fileMaps) = 2
    /\ osEnvMap = Env1(A, <<"o">>)
    /\ A \in DOMAIN fileMaps[1]
    /\ A \in DOMAIN fileMaps[2]
    /\ inheritedEnvMap[A] = fileMaps[2][A]
    /\ inheritedEnvMap[A] # <<"o">>

\* C26: an escaped dollar that follows a reference does not change the
\* reference: with A bound, the lines B=$A\$B and B=${A}\$B store the binding
\* of A followed by the placeholder and B, which the final pass turns into
\* the binding of A followed by $B.
C26_EscapeAfterReference ==
    (/\ pc = "scan"
     /\ last.text \in {Def(B, Ref(A) \o Esc \o B), Def(B, RefB(A) \o Esc \o B)}
     /\ A \in BoundNames) =>
        last.out = ChainValue(A) \o literalDollarPlaceholder \o B

\* C27: what a command prints is never run.  Whatever the commands print, a
\* $(...) token in it included, the lines A=$[c] and A=$(c) make one runner
\* invocation, of the command c, and the line B=$A, which refers to the key
\* that holds the output, makes none.
C27_OutputIsNeverRun ==
    pc = "scan" =>
        /\ last.text \in {Def(A, Brack(<<"c">>)), Def(A, Paren(<<"c">>))} =>
               /\ Len(last.calls) = 1
               /\ last.calls[1].arg = <<"-c", <<"c">>>>
        /\ last.text = Def(B, Ref(A)) => last.calls = <<>>

\* the lines of suite "redefine" that refer to their own key: the text
\* before the reference and the text after it
SelfExtending ==
    { [text |-> Def(A, Ref(A) \o <<"/", "a">>),
       pre |-> <<>>, post |-> <<"/", "a">>],
      [text |-> Def(A, <<"p">> \o RefB(A) \o <<"b">>),
       pre |-> <<"p">>, post |-> <<"b">>] }

\* C28: when A has a binding, from an earlier line of the file, an earlier
\* file or the process environment, a line that defines A from $A or ${A}
\* stores the text of the line with that binding in the place of the
\* reference; after any line that defines A the map of the file holds the
\* value the line stored, and the map a file returns holds for A the value
\* of its last line.
C28_RedefinitionSeesPrevious ==
    /\ pc = "scan" =>
           /\ \A t \in SelfExtending :
                  (last.text = t.text /\ A \in BoundNames) =>
                      last.out = t.pre \o ChainValue(A) \o t.post
           /\ last.kind = "defined" => initialEnvMap[last.key] = last.out
    /\ (pc = "chain" /\ fileNo > 0 /\ last.kind = "defined") =>
           /\ returned.map[last.key] = last.out
           /\ jointResolvedEnvMap[last.key] = last.out

\* C28, reached: the process has A=o, and the file A=$A/a, A=p${A}b, A=$A/a
\* was read: A went from o/a to po/ab and to po/ab/a.
C28_Witness ==
    /\ pc = "scan"
    /\ osEnvMap = Env1(A, <<"o">>)
    /\ fileNo = 1
    /\ last.text = Def(A, Ref(A) \o <<"/", "a">>)
    /\ last.before = << <<A, <<"o", "/", "a">>>>,
                        <<A, <<"p", "o", "/", "a", "b">>>> >>
    /\ initialEnvMap[A] = <<"p", "o", "/", "a", "b", "/", "a">>

\* C29: the environment of a sub-process never holds the placeholder: each
\* name bound for the line has in it the binding it has for the line, with a
\* dollar in the place of each escaped dollar.
C29_SubprocessSeesDollar ==
    pc = "scan" =>
        \A i \in 1..Len(last.calls) :
            \A k \in DOMAIN last.calls[i].env :
                /\ ~Contains(last.calls[i].env[k], literalDollarPlaceholder)
                /\ last.calls[i].env[k]
                       = ReplaceAll(ChainValue(k), literalDollarPlaceholder,
                                    <<"$">>)

\* C30: the file of every identifier of the chain is located before any file
\* is parsed.  The files are located only before the loop over the files,
\* and a file is opened only after it, among the files located; when a file
\* is not found main exits with 1 from the loop over the identifiers, and by
\* then no file was opened and no line read, those of the identifiers before
\* the missing one included, so that no runner invocation was made.
C30_LocatedBeforeParsed ==
    [][/\ located' # located => pc = "locate"
       /\ pc = "locate" =>
              /\ fileNo' = 0
              /\ nLines' = 0
              /\ last' = NoLine
              /\ fileMaps' = <<>>
       /\ fileNo' # fileNo =>
              /\ pc = "chain"
              /\ fileNo' <= located
       /\ fatal' = "not found" =>
              /\ pc = "locate"
              /\ pc' = "exit1"
              /\ fileNo' = 0
              /\ nLines' = 0
              /\ last' = NoLine
              /\ last'.calls = <<>>
              /\ fileMaps' = <<>>
              /\ stdout' = <<>>
              /\ envp' = <<>>]_vars

\* C30, reached: the file of the first identifier was found, that of the
\* second was not: main has exited with 1 and nothing was read.
C30_Witness ==
    /\ pc = "exit1"
    /\ fatal = "not found"
    /\ located = 1
    /\ fileNo = 0
    /\ nLines = 0
    /\ last = NoLine

====
